---- MODULE Spec2Model ----
(***************************************************************************)
(* Streaming PCM playback pipeline of molly-live (src/app/page.tsx):       *)
(* the StreamingAudioPlayer singleton, the playAudioStream read loop, the  *)
(* /api/tts response metadata (src/app/api/tts/route.ts) and the UI entry  *)
(* points that stop or resume the player.                                  *)
(*                                                                         *)
(* Time is counted in ticks of 1/TicksPerSecond s, the least common        *)
(* denominator of the two sample rates, so that every buffer duration      *)
(* sampleCount/sampleRate is an exact integer.                             *)
(***************************************************************************)
EXTENDS Integers, Sequences, FiniteSets, TLC

\* ---------------------------------------------------------------- bounds
MaxCalls == 2
MaxBytes == 5
MaxTicks == 1
ClockStep == 150
MaxUnits == 2

\* ------------------------------------------------------ program constants
COSY_SAMPLE_RATE == 24000
CARTESIA_SAMPLE_RATE == 44100
TicksPerSecond == COSY_SAMPLE_RATE * 147
MaxTime == MaxTicks * ClockStep

Engines == {"cosyvoice", "cartesia"}

\* The byte streams a backend may produce: stream p carries PayloadByte(p, i)
\* at offset i, cut into chunks of any length and ended at any offset.
Payloads == {1, 2}
PayloadByte(p, i) == IF p = 1 THEN i % 256 ELSE (256 - i) % 256

VARIABLES
    audioContext,      \* "null" | "suspended" | "running"
    resumePending,     \* audioContext.resume() was called and is not settled
    currentTime,       \* audioContext.currentTime, in ticks
    nextStartTime,     \* StreamingAudioPlayer.nextStartTime, in ticks
    isPlaying,         \* StreamingAudioPlayer.isPlaying
    queue,             \* StreamingAudioPlayer.queue
    scheduledSources,  \* StreamingAudioPlayer.scheduledSources: node ids
    nodes,             \* the AudioBufferSourceNodes whose ended event is due
    calls,             \* every playAudioStream invocation so far
    raised,            \* operations whose exception escaped to their caller
    lastOp,            \* the operation that produced the current state
    speaking,          \* window.speechSynthesis is speaking an utterance
    voice              \* the voice chosen in the settings panel

vars == <<audioContext, resumePending, currentTime, nextStartTime, isPlaying,
          queue, scheduledSources, nodes, calls, raised, lastOp, speaking,
          voice>>

player == <<nextStartTime, isPlaying, queue, scheduledSources>>

\* ---------------------------------------------------------------- helpers
Range(s) == {s[i] : i \in 1..Len(s)}

NoPre == [reg |-> <<>>, nst |-> 0, ctx |-> "null", now |-> 0, inflight |-> FALSE]

Op(name, c) == [op |-> name, call |-> c, pre |-> NoPre, arg |-> <<>>]

\* lastOp names the operation only when it is one of the player's own
\* (stop, resume, scheduleChunk) or a read-loop iteration that only carried
\* bytes over ("carry"); every other step leaves Other.
Other == Op("other", 0)

\* Where a playAudioStream call stands: awaiting resume(), fetch() or
\* reader.read(); or finished: "done" (the loop saw done), "notok" (the early
\* return of line 247), "caught" (the catch of line 281) or "rejected" (an
\* exception of line 231 or 232 left the function).
InFlight(c) == c.pc \in {"resume", "fetch", "read"}

Returned(c) == c.pc \in {"done", "notok", "caught"}

\* The promise settled as soon as the first buffer was scheduled.
Outcome_OnceStreaming(c) ==
    IF c.pc \in {"done", "notok", "caught"} \/ c.emitted # <<>> THEN "resolved"
    ELSE IF c.pc = "rejected" THEN "rejected" ELSE "pending"

\* How the promise of a playAudioStream call stands: the async function
\* resolves at the return of line 247, at the end of the try block after
\* the loop broke on done, or after the catch of lines 281-283; it rejects
\* when line 231 or 232 throws; until then it is pending.
Outcome(c) ==
    IF Returned(c) THEN "resolved"
    ELSE IF c.pc = "rejected" THEN "rejected" ELSE "pending"

\* ----------------------------------------------------- sample decoding
\* Line 268.
\* Line 270 with the float32 width for every format.
BytesPerSample_AlwaysFour(audioFormat) == 4

BytesPerSample(audioFormat) == IF audioFormat = "float32" THEN 4 ELSE 2

\* The two bytes read as an unsigned element (a Uint16Array view).
Int16LE_Unsigned(b0, b1) == b0 + 256 * b1

\* An Int16Array element: two bytes, little-endian, two's complement.
Int16LE(b0, b1) ==
    LET u == b0 + 256 * b1
    IN  IF u >= 32768 THEN u - 65536 ELSE u

\* Lines 178-182: a sample is the fraction num/32768.
DecodeInt16(chunk) ==
    [i \in 1..(Len(chunk) \div 2) |->
        [num |-> Int16LE(chunk[2 * i - 1], chunk[2 * i]), den |-> 32768]]

\* Line 185: a sample is the IEEE-754 bit pattern of four little-endian
\* bytes, kept as its low and high 16-bit halves.
DecodeFloat32(chunk) ==
    [i \in 1..(Len(chunk) \div 4) |->
        [lo |-> chunk[4 * i - 3] + 256 * chunk[4 * i - 2],
         hi |-> chunk[4 * i - 1] + 256 * chunk[4 * i]]]

Decode(chunk, format) ==
    IF format = "int16" THEN DecodeInt16(chunk) ELSE DecodeFloat32(chunk)

\* A typed-array view over a buffer that is not a whole number of elements
\* throws a RangeError.
ViewThrows(chunk, format) == Len(chunk) % BytesPerSample(format) # 0

\* A duration taken at the default rate whatever the stream's rate is.
BufferDuration_DefaultRate(length, sampleRate) ==
    (length * TicksPerSecond) \div CARTESIA_SAMPLE_RATE

\* The duration with its sign flipped, as if line 203 subtracted it.
BufferDuration_Negated(length, sampleRate) ==
    0 - ((length * TicksPerSecond) \div sampleRate)

\* AudioBuffer.duration = length / sampleRate, in ticks.
BufferDuration(length, sampleRate) == (length * TicksPerSecond) \div sampleRate

\* scheduleChunk() without lines 196-198.
StartTime_NoAnchor(nst, now) == nst

\* Lines 196-198.
StartTime(nst, now) == IF nst < now THEN now ELSE nst

\* ----------------------------------------------------- /api/tts metadata
\* The headers of a successful response of the route, route.ts lines 55-72
\* (cartesia) and 111-128 (cosyvoice), with and without streaming. The
\* sample rate is a string of decimal digits.
ResponseHeaders(engine, stream) ==
    IF engine = "cartesia"
    THEN IF stream
         THEN [audioFormat |-> "pcm_f32le", sampleRate |-> <<4, 4, 1, 0, 0>>]
         ELSE [audioFormat |-> "pcm_f32le", sampleRate |-> <<4, 4, 1, 0, 0>>]
    ELSE IF stream
         THEN [audioFormat |-> "pcm_s16le", sampleRate |-> <<2, 4, 0, 0, 0>>]
         ELSE [audioFormat |-> "pcm_s16le", sampleRate |-> <<2, 4, 0, 0, 0>>]

\* The other rate the route's comment names for CosyVoice.
SampleRateHeader_Cosy22050(engine) ==
    IF engine = "cartesia" THEN <<4, 4, 1, 0, 0>> ELSE <<2, 2, 0, 5, 0>>

\* response.headers.get('X-Sample-Rate'), line 251.
SampleRateHeader(engine) == ResponseHeaders(engine, TRUE).sampleRate

\* response.headers.get('X-Audio-Format'), line 252.
AudioFormatHeader(engine) == ResponseHeaders(engine, TRUE).audioFormat

\* parseInt(digits, 10).
RECURSIVE ParseInt(_)
ParseInt(digits) ==
    IF digits = <<>> THEN 0
    ELSE 10 * ParseInt(SubSeq(digits, 1, Len(digits) - 1)) + digits[Len(digits)]

\* Line 254.
StreamSampleRate(engine) ==
    IF SampleRateHeader(engine) # <<>> THEN ParseInt(SampleRateHeader(engine))
    ELSE IF engine = "cartesia" THEN CARTESIA_SAMPLE_RATE ELSE COSY_SAMPLE_RATE

\* Line 255.
StreamAudioFormat(engine) ==
    IF AudioFormatHeader(engine) = "pcm_f32le" \/ engine = "cartesia"
    THEN "float32" ELSE "int16"

Init ==
    /\ audioContext = "null"
    /\ resumePending = FALSE
    /\ currentTime = 0
    /\ nextStartTime = 0
    /\ isPlaying = FALSE
    /\ queue = <<>>
    /\ scheduledSources = <<>>
    /\ nodes = <<>>
    /\ calls = <<>>
    /\ raised = {}
    /\ lastOp = Op("init", 0)
    /\ speaking = FALSE
    /\ voice = "cartesia"

\* ------------------------------------------------ StreamingAudioPlayer
\* stop() without the try/catch: the first halt that throws ends the
\* iteration and leaves stop().
StopForEach_NoCatch(reg, nds, throwers) ==
    LET bad == {i \in 1..Len(reg) : reg[i] \in throwers}
        upto == IF bad = {} THEN Len(reg)
                ELSE (CHOOSE i \in bad : \A j \in bad : i <= j) - 1
    IN  [nodes |-> [n \in DOMAIN nds |->
                       IF \E i \in 1..upto : reg[i] = n
                       THEN [nds[n] EXCEPT !.halted = TRUE]
                       ELSE nds[n]],
         completed |-> bad = {}]

\* stop(), lines 159-165: halt every registered source; a halt that throws
\* is swallowed by the try/catch and the iteration goes on.
StopForEach(reg, nds, throwers) ==
    [nodes |-> [n \in DOMAIN nds |->
                   IF n \in Range(reg) /\ n \notin throwers
                   THEN [nds[n] EXCEPT !.halted = TRUE]
                   ELSE nds[n]],
     completed |-> TRUE]

\* stop() without line 166.
StopReset_KeepsRegistry(reg, q, playing, nst) ==
    [scheduledSources |-> reg, queue |-> <<>>, isPlaying |-> FALSE,
     nextStartTime |-> 0]

\* stop() without line 169.
StopReset_KeepsTimeline(reg, q, playing, nst) ==
    [scheduledSources |-> <<>>, queue |-> <<>>, isPlaying |-> FALSE,
     nextStartTime |-> nst]

\* stop(), lines 166-169: the fields as they are after the resets.
StopReset(reg, q, playing, nst) ==
    [scheduledSources |-> <<>>, queue |-> <<>>, isPlaying |-> FALSE,
     nextStartTime |-> 0]

\* Sources whose playback already ran to its end; the device may have
\* released them, so halting one of these may throw.
Finished(reg) ==
    {n \in Range(reg) : currentTime >= nodes[n].start + nodes[n].duration}

\* stop() with a cancellation the read loops obey: every loop awaiting
\* reader.read() is ended.
MarkStale_EndsLoop(cs) ==
    [c \in 1..Len(cs) |->
        IF cs[c].pc = "read" THEN [cs[c] EXCEPT !.pc = "done"] ELSE cs[c]]

MarkStale(cs) ==
    [c \in 1..Len(cs) |->
        IF cs[c].pc = "read" THEN [cs[c] EXCEPT !.stale = TRUE] ELSE cs[c]]

\* The whole of stop(), lines 158-170.
Stop(throwers) ==
    LET r == StopForEach(scheduledSources, nodes, throwers)
        z == StopReset(scheduledSources, queue, isPlaying, nextStartTime)
    IN  /\ nodes' = r.nodes
        /\ IF r.completed
           THEN /\ scheduledSources' = z.scheduledSources
                /\ queue' = z.queue
                /\ isPlaying' = z.isPlaying
                /\ nextStartTime' = z.nextStartTime
                /\ raised' = raised
           ELSE /\ UNCHANGED player
                /\ raised' = raised \cup {"stop"}

StopCompletes(throwers) ==
    StopForEach(scheduledSources, nodes, throwers).completed

PreStop ==
    [reg |-> scheduledSources, nst |-> nextStartTime, ctx |-> audioContext,
     now |-> currentTime,
     inflight |-> \E c \in 1..Len(calls) : InFlight(calls[c])]

\* resume(), lines 150-152: the context after the lazy construction;
\* made = "null" stands for a constructor that throws.
ResumeContext(ctx, made) == IF ctx = "null" THEN made ELSE ctx

\* resume() without the test of line 153: audioContext.resume() is called
\* whatever the state of the context.
Resume_NoStateCheck(ctx, pending, made) ==
    LET created == ResumeContext(ctx, made)
    IN  [audioContext |-> created,
         resumePending |-> (pending \/ created # "null"),
         threw |-> created = "null"]

\* resume(), lines 149-156, up to its await: the context it leaves, whether
\* an audioContext.resume() is outstanding afterwards, and whether the
\* constructor threw.
Resume(ctx, pending, made) ==
    LET created == ResumeContext(ctx, made)
    IN  [audioContext |-> created,
         resumePending |-> (pending \/ created = "suspended"),
         threw |-> created = "null"]

\* The identity of a newly created node: one no live node has.
FreshId(used) == CHOOSE n \in 1..(Cardinality(used) + 1) : n \notin used

\* scheduleChunk() with a guard that turns away the chunks of a read loop
\* that stop() has overtaken.
ScheduleChunk_StaleGuard(c, chunk, sampleRate, format) ==
    IF audioContext = "null" \/ calls[c].stale
    THEN [threw |-> FALSE, float32Array |-> <<>>, nodes |-> nodes,
          scheduledSources |-> scheduledSources,
          nextStartTime |-> nextStartTime]
    ELSE IF ViewThrows(chunk, format)
    THEN [threw |-> TRUE, float32Array |-> <<>>, nodes |-> nodes,
          scheduledSources |-> scheduledSources,
          nextStartTime |-> nextStartTime]
    ELSE
      LET float32Array == Decode(chunk, format)
          duration == BufferDuration(Len(float32Array), sampleRate)
          startAt == StartTime(nextStartTime, currentTime)
          source == [owner |-> c, length |-> Len(float32Array),
                     start |-> startAt, duration |-> duration,
                     halted |-> FALSE]
          id == FreshId(DOMAIN nodes)
      IN  [threw |-> FALSE, float32Array |-> float32Array,
           nodes |-> [n \in DOMAIN nodes \cup {id} |->
                         IF n = id THEN source ELSE nodes[n]],
           scheduledSources |-> Append(scheduledSources, id),
           nextStartTime |-> startAt + duration]

\* scheduleChunk() without the guard of line 173: on a player without a
\* context, this.audioContext.createBuffer is a TypeError.
ScheduleChunk_NoContextGuard(c, chunk, sampleRate, format) ==
    IF ViewThrows(chunk, format) \/ audioContext = "null"
    THEN [threw |-> TRUE, float32Array |-> <<>>, nodes |-> nodes,
          scheduledSources |-> scheduledSources,
          nextStartTime |-> nextStartTime]
    ELSE
      LET float32Array == Decode(chunk, format)
          duration == BufferDuration(Len(float32Array), sampleRate)
          startAt == StartTime(nextStartTime, currentTime)
          source == [owner |-> c, length |-> Len(float32Array),
                     start |-> startAt, duration |-> duration,
                     halted |-> FALSE]
          id == FreshId(DOMAIN nodes)
      IN  [threw |-> FALSE, float32Array |-> float32Array,
           nodes |-> [n \in DOMAIN nodes \cup {id} |->
                         IF n = id THEN source ELSE nodes[n]],
           scheduledSources |-> Append(scheduledSources, id),
           nextStartTime |-> startAt + duration]

\* scheduleChunk(), lines 172-211.
ScheduleChunk(c, chunk, sampleRate, format) ==
    IF audioContext = "null"
    THEN [threw |-> FALSE, float32Array |-> <<>>, nodes |-> nodes,
          scheduledSources |-> scheduledSources,
          nextStartTime |-> nextStartTime]
    ELSE IF ViewThrows(chunk, format)
    THEN [threw |-> TRUE, float32Array |-> <<>>, nodes |-> nodes,
          scheduledSources |-> scheduledSources,
          nextStartTime |-> nextStartTime]
    ELSE
      LET float32Array == Decode(chunk, format)
          duration == BufferDuration(Len(float32Array), sampleRate)
          startAt == StartTime(nextStartTime, currentTime)
          source == [owner |-> c, length |-> Len(float32Array),
                     start |-> startAt, duration |-> duration,
                     halted |-> FALSE]
          id == FreshId(DOMAIN nodes)
      IN  [threw |-> FALSE, float32Array |-> float32Array,
           nodes |-> [n \in DOMAIN nodes \cup {id} |->
                         IF n = id THEN source ELSE nodes[n]],
           scheduledSources |-> Append(scheduledSources, id),
           nextStartTime |-> startAt + duration]

\* onended without the test of line 207: splice(-1, 1) drops the last
\* entry when the source is no longer registered.
RemoveSource_NoIndexCheck(reg, n) ==
    IF n \in Range(reg) THEN SelectSeq(reg, LAMBDA m : m # n)
    ELSE SubSeq(reg, 1, Len(reg) - 1)

\* source.onended, lines 205-210.
RemoveSource(reg, n) == SelectSeq(reg, LAMBDA m : m # n)

\* The ended event dispatched only to sources that stop() halted: a source
\* that plays to its end never has its onended run.
SourceEnded_HaltedOnly(n) ==
    /\ nodes[n].halted
    /\ nodes' = [m \in DOMAIN nodes \ {n} |-> nodes[m]]
    /\ scheduledSources' = SelectSeq(scheduledSources, LAMBDA m : m # n)
    /\ lastOp' = Other
    /\ UNCHANGED <<speaking, voice>>
    /\ UNCHANGED <<audioContext, resumePending, currentTime, nextStartTime,
                   isPlaying, queue, calls, raised>>

\* The ended event of a source is dispatched, after which nothing refers
\* to the node any more.
SourceEnded(n) ==
    /\ nodes[n].halted \/ currentTime >= nodes[n].start + nodes[n].duration
    /\ nodes' = [m \in DOMAIN nodes \ {n} |-> nodes[m]]
    /\ scheduledSources' = RemoveSource(scheduledSources, n)
    /\ lastOp' = Other
    /\ UNCHANGED <<speaking, voice>>
    /\ UNCHANGED <<audioContext, resumePending, currentTime, nextStartTime,
                   isPlaying, queue, calls, raised>>

\* The device clock of a running context.
Tick ==
    /\ audioContext = "running"
    /\ currentTime < MaxTime
    /\ currentTime' = currentTime + ClockStep
    /\ lastOp' = Other
    /\ UNCHANGED <<speaking, voice>>
    /\ UNCHANGED <<audioContext, resumePending, nextStartTime, isPlaying,
                   queue, scheduledSources, nodes, calls, raised>>

\* ------------------------------------------------------- playAudioStream
\* failed records which await of the call met a failure: "resume" (line
\* 232), "fetch" (lines 235-248) or "read" (lines 260-278); "none" so far.
NewCall(engine, pc, failed) ==
    [pc |-> pc, engine |-> engine, sampleRate |-> 0, audioFormat |-> "none",
     payload |-> 0, leftover |-> <<>>, received |-> <<>>, handed |-> <<>>,
     emitted |-> <<>>, stale |-> FALSE, failed |-> failed]

\* Lines 231-232 up to the first suspension: stop(), then resume() until it
\* either throws, awaits audioContext.resume(), or falls through to fetch.
PlayAudioStream(engine, made, throwers) ==
    /\ Len(calls) < MaxCalls
    /\ Stop(throwers)
    /\ LET r == Resume(audioContext, resumePending, made)
           pc == IF ~StopCompletes(throwers) \/ r.threw THEN "rejected"
                 ELSE IF r.audioContext = "suspended" THEN "resume" ELSE "fetch"
           failed == IF StopCompletes(throwers) /\ r.threw THEN "resume"
                     ELSE "none"
       IN  /\ audioContext' = IF StopCompletes(throwers) THEN r.audioContext
                              ELSE audioContext
           /\ resumePending' = IF StopCompletes(throwers) THEN r.resumePending
                               ELSE resumePending
           /\ calls' = Append(MarkStale(calls), NewCall(engine, pc, failed))
    /\ lastOp' = [op |-> "play", call |-> Len(calls) + 1, pre |-> PreStop,
                  arg |-> throwers]
    /\ UNCHANGED <<speaking, voice>>
    /\ UNCHANGED <<currentTime>>

\* audioContext.resume() settles; every call awaiting it continues.
DeviceResumed ==
    /\ resumePending
    /\ audioContext' = "running"
    /\ resumePending' = FALSE
    /\ calls' = [c \in 1..Len(calls) |->
                    IF calls[c].pc = "resume"
                    THEN [calls[c] EXCEPT !.pc = "fetch"] ELSE calls[c]]
    /\ lastOp' = Other
    /\ UNCHANGED <<speaking, voice>>
    /\ UNCHANGED <<currentTime, nextStartTime, isPlaying, queue,
                   scheduledSources, nodes, raised>>

\* The rejection of audioContext.resume() swallowed: the calls awaiting it
\* go on to fetch.
DeviceResumeDenied_Swallowed ==
    /\ resumePending
    /\ resumePending' = FALSE
    /\ calls' = [c \in 1..Len(calls) |->
                    IF calls[c].pc = "resume"
                    THEN [calls[c] EXCEPT !.pc = "fetch", !.failed = "resume"]
                    ELSE calls[c]]
    /\ lastOp' = Other
    /\ UNCHANGED <<speaking, voice>>
    /\ UNCHANGED <<audioContext, currentTime, nextStartTime, isPlaying, queue,
                   scheduledSources, nodes, raised>>

\* audioContext.resume() rejects (device unavailable, permission denied);
\* the exception leaves every playAudioStream call awaiting it.
DeviceResumeDenied ==
    /\ resumePending
    /\ resumePending' = FALSE
    /\ calls' = [c \in 1..Len(calls) |->
                    IF calls[c].pc = "resume"
                    THEN [calls[c] EXCEPT !.pc = "rejected", !.failed = "resume"]
                    ELSE calls[c]]
    /\ lastOp' = Other
    /\ UNCHANGED <<speaking, voice>>
    /\ UNCHANGED <<audioContext, currentTime, nextStartTime, isPlaying, queue,
                   scheduledSources, nodes, raised>>

\* What fetch() may come to: a response that is ok and has a body, one that
\* is not ok (the JSON errors of the route), one without a body, or a
\* rejection.
FetchOutcomes == {"ok", "notok", "nobody", "rejects"}

\* Lines 244-248 left out: whatever response arrives is read.
FetchResponds_NoStatusCheck(c, outcome, p) ==
    /\ calls[c].pc = "fetch"
    /\ calls' = [calls EXCEPT ![c] =
                    IF outcome # "rejects"
                    THEN [@ EXCEPT !.pc = "read",
                                   !.sampleRate = StreamSampleRate(calls[c].engine),
                                   !.audioFormat = StreamAudioFormat(calls[c].engine),
                                   !.payload = p,
                                   !.leftover = <<>>,
                                   !.failed = IF outcome = "ok" THEN @ ELSE "fetch"]
                    ELSE [@ EXCEPT !.pc = "caught", !.failed = "fetch"]]
    /\ lastOp' = Other
    /\ UNCHANGED <<speaking, voice>>
    /\ UNCHANGED <<audioContext, resumePending, currentTime, nextStartTime,
                   isPlaying, queue, scheduledSources, nodes, raised>>

\* Lines 235-257: the fetch settles; p is the byte stream of the response.
FetchResponds(c, outcome, p) ==
    /\ calls[c].pc = "fetch"
    /\ calls' = [calls EXCEPT ![c] =
                    IF outcome = "ok"
                    THEN [@ EXCEPT !.pc = "read",
                                   !.sampleRate = StreamSampleRate(calls[c].engine),
                                   !.audioFormat = StreamAudioFormat(calls[c].engine),
                                   !.payload = p,
                                   !.leftover = <<>>]
                    ELSE [@ EXCEPT !.pc = IF outcome = "rejects" THEN "caught"
                                          ELSE "notok",
                                   !.failed = "fetch"]]
    /\ lastOp' = Other
    /\ UNCHANGED <<speaking, voice>>
    /\ UNCHANGED <<audioContext, resumePending, currentTime, nextStartTime,
                   isPlaying, queue, scheduledSources, nodes, raised>>

\* The carry-over copied after the new bytes instead of before them.
Concat_Swapped(leftover, value) == value \o leftover

\* The carry-over dropped: temp holds the new bytes only.
Concat_DropsCarry(leftover, value) == value

\* Lines 263-266.
Concat(leftover, value) == leftover \o value

\* The whole accumulated length, not cut down to whole samples.
ProcessableLength_NoAlign(totalLength, bytesPerSample) == totalLength

\* Lines 269-271.
ProcessableLength(totalLength, bytesPerSample) ==
    totalLength - (totalLength % bytesPerSample)

\* Line 274 without the cut: the whole of temp is handed over.
ChunkToProcess_Whole(temp, processableLength) == temp

\* Line 274.
ChunkToProcess(temp, processableLength) == SubSeq(temp, 1, processableLength)

\* The loop without line 275: the processed bytes stay in leftover.
Remaining_Unsliced(temp, processableLength) == temp

\* Line 275 resetting leftover to an empty array.
Remaining_Cleared(temp, processableLength) == <<>>

\* Line 275.
Remaining(temp, processableLength) ==
    SubSeq(temp, processableLength + 1, Len(temp))

\* The next len bytes of the stream of call c.
NextBytes(c, len) ==
    [i \in 1..len |-> PayloadByte(calls[c].payload, Len(calls[c].received) + i)]

\* Bytes the network has delivered so far, over all streams.
RECURSIVE SumReceived(_)
SumReceived(cs) ==
    IF cs = <<>> THEN 0 ELSE Len(Head(cs).received) + SumReceived(Tail(cs))

BytesReceived == SumReceived(calls)

\* Lines 260-278: one iteration of the read loop with done = false and a
\* value of len bytes.
ReadLoopBody(c, len) ==
    /\ calls[c].pc = "read"
    /\ LET call == calls[c]
           value == NextBytes(c, len)
           temp == Concat(call.leftover, value)
           bytesPerSample == BytesPerSample(call.audioFormat)
           processableLength == ProcessableLength(Len(temp), bytesPerSample)
           chunkToProcess == ChunkToProcess(temp, processableLength)
           r == ScheduleChunk(c, chunkToProcess, call.sampleRate, call.audioFormat)
       IN  IF processableLength > 0
           THEN /\ calls' = [calls EXCEPT ![c] =
                       [@ EXCEPT !.received = @ \o value,
                                 !.leftover = Remaining(temp, processableLength),
                                 !.handed = @ \o chunkToProcess,
                                 !.emitted = @ \o r.float32Array,
                                 !.pc = IF r.threw THEN "caught" ELSE "read",
                                 !.stale = IF r.threw THEN FALSE ELSE @,
                                 !.failed = IF r.threw THEN "read" ELSE @]]
                /\ nodes' = r.nodes
                /\ scheduledSources' = r.scheduledSources
                /\ nextStartTime' = r.nextStartTime
                /\ lastOp' = [op |-> "schedule", call |-> c,
                              pre |-> [PreStop EXCEPT !.inflight = FALSE],
                              arg |-> chunkToProcess]
           ELSE /\ calls' = [calls EXCEPT ![c] =
                       [@ EXCEPT !.received = @ \o value, !.leftover = temp]]
                /\ UNCHANGED <<nodes, scheduledSources, nextStartTime>>
                /\ lastOp' = [op |-> "carry", call |-> c,
                              pre |-> [PreStop EXCEPT !.inflight = FALSE],
                              arg |-> <<call.leftover, value>>]
    /\ UNCHANGED <<speaking, voice>>
    /\ UNCHANGED <<audioContext, resumePending, currentTime, isPlaying, queue,
                   raised>>

\* reader.read() yields a chunk of len bytes, within the byte budget.
ReadChunk(c, len) ==
    /\ BytesReceived + len <= MaxBytes
    /\ ReadLoopBody(c, len)

\* Line 261: the stream reports done.
ReadDone(c) ==
    /\ calls[c].pc = "read"
    /\ calls' = [calls EXCEPT ![c].pc = "done", ![c].stale = FALSE]
    /\ lastOp' = Other
    /\ UNCHANGED <<speaking, voice>>
    /\ UNCHANGED <<audioContext, resumePending, currentTime, nextStartTime,
                   isPlaying, queue, scheduledSources, nodes, raised>>

\* The read loop outside the try: a rejected reader.read() leaves
\* playAudioStream as an exception.
ReadFails_Rethrows(c) ==
    /\ calls[c].pc = "read"
    /\ calls' = [calls EXCEPT ![c].pc = "rejected", ![c].stale = FALSE,
                              ![c].failed = "read"]
    /\ lastOp' = Other
    /\ UNCHANGED <<speaking, voice>>
    /\ UNCHANGED <<audioContext, resumePending, currentTime, nextStartTime,
                   isPlaying, queue, scheduledSources, nodes, raised>>

\* Lines 281-283: reader.read() rejects and the catch logs it.
ReadFails(c) ==
    /\ calls[c].pc = "read"
    /\ calls' = [calls EXCEPT ![c].pc = "caught", ![c].stale = FALSE,
                              ![c].failed = "read"]
    /\ lastOp' = Other
    /\ UNCHANGED <<speaking, voice>>
    /\ UNCHANGED <<audioContext, resumePending, currentTime, nextStartTime,
                   isPlaying, queue, scheduledSources, nodes, raised>>

\* ------------------------------------------------------------ UI entries
\* stopSpeak() / the Stop button: stopAudioPlayback() and
\* speechSynthesis.cancel().
StopSpeak(throwers) ==
    /\ Stop(throwers)
    /\ calls' = MarkStale(calls)
    /\ lastOp' = [op |-> "stop", call |-> 0, pre |-> PreStop, arg |-> throwers]
    /\ speaking' = FALSE
    /\ UNCHANGED voice
    /\ UNCHANGED <<audioContext, resumePending, currentTime>>

\* handleSend(), lines 923-925: stopSpeak() then a detached resume().
HandleSend(made, throwers) ==
    /\ Stop(throwers)
    /\ calls' = MarkStale(calls)
    /\ LET r == Resume(audioContext, resumePending, made)
       IN  /\ audioContext' = IF StopCompletes(throwers) THEN r.audioContext
                              ELSE audioContext
           /\ resumePending' = IF StopCompletes(throwers) THEN r.resumePending
                               ELSE resumePending
    /\ lastOp' = [op |-> "send", call |-> 0, pre |-> PreStop, arg |-> throwers]
    /\ speaking' = FALSE
    /\ UNCHANGED voice
    /\ UNCHANGED <<currentTime>>

\* What the AudioContext constructor may yield when resume() runs.
Made == IF audioContext = "null" THEN {"null", "suspended", "running"}
        ELSE {audioContext}

\* The steps of the page's code and of its callbacks.
Handlers ==
    \/ \E e \in Engines, k \in Made, t \in SUBSET Finished(scheduledSources) :
          PlayAudioStream(e, k, t)
    \/ DeviceResumed
    \/ DeviceResumeDenied
    \/ \E c \in 1..Len(calls), o \in FetchOutcomes, p \in Payloads :
          FetchResponds(c, o, p)
    \/ \E c \in 1..Len(calls), len \in 0..MaxBytes : ReadChunk(c, len)
    \/ \E c \in 1..Len(calls) : ReadDone(c)
    \/ \E c \in 1..Len(calls) : ReadFails(c)
    \/ \E n \in DOMAIN nodes : SourceEnded(n)
    \/ \E t \in SUBSET Finished(scheduledSources) : StopSpeak(t)
    \/ \E k \in Made, t \in SUBSET Finished(scheduledSources) : HandleSend(k, t)

Next ==
    \/ Handlers
    \/ Tick

Spec == Init /\ [][Next]_vars

\* The device plays a registered source to its end: the clock of the running
\* context reaches the end of the source's buffer.
PlayToEnd(n) ==
    /\ audioContext = "running"
    /\ n \in Range(scheduledSources)
    /\ currentTime < nodes[n].start + nodes[n].duration
    /\ currentTime' = nodes[n].start + nodes[n].duration
    /\ lastOp' = Other
    /\ UNCHANGED <<speaking, voice>>
    /\ UNCHANGED <<audioContext, resumePending, nextStartTime, isPlaying,
                   queue, scheduledSources, nodes, calls, raised>>

LiveNext ==
    \/ Handlers
    \/ \E n \in DOMAIN nodes : PlayToEnd(n)

\* The program with a device that plays every source it was given to its
\* end and an event loop that dispatches every ended event that is due.
LiveSpec ==
    /\ Init
    /\ [][LiveNext]_vars
    /\ WF_vars(\E n \in DOMAIN nodes : PlayToEnd(n))
    /\ WF_vars(\E n \in DOMAIN nodes : SourceEnded(n))

\* A stream of 16 bytes that arrives in chunks of 3, 5 and 8 bytes.
ExampleChunks == <<3, 5, 8>>

RECURSIVE SumFirst(_, _)
SumFirst(sizes, k) == IF k = 0 THEN 0 ELSE sizes[k] + SumFirst(sizes, k - 1)

\* A float32 stream of 6 bytes that arrives in one chunk.
ExampleChunk6 == <<6>>

\* The chunks in which the stream of a call arrives: those of the int16
\* example or the one of the float32 example.
ChunksOf(audioFormat) ==
    IF audioFormat = "int16" THEN ExampleChunks ELSE ExampleChunk6

\* reader.read() yields the k-th chunk of the example once the chunks
\* before it have been received.
ExampleRead(c) ==
    \E k \in 1..Len(ChunksOf(calls[c].audioFormat)) :
        LET sizes == ChunksOf(calls[c].audioFormat)
        IN  /\ Len(calls[c].received) = SumFirst(sizes, k - 1)
            /\ ReadLoopBody(c, sizes[k])

\* One playAudioStream call, its stream arriving as the example's chunks,
\* with the device, the UI's stop and the ended events around it.
ExampleNext ==
    \/ /\ calls = <<>>
       /\ \E e \in Engines, k \in Made : PlayAudioStream(e, k, {})
    \/ DeviceResumed
    \/ DeviceResumeDenied
    \/ \E c \in 1..Len(calls), o \in FetchOutcomes, p \in Payloads :
          FetchResponds(c, o, p)
    \/ \E c \in 1..Len(calls) : ExampleRead(c)
    \/ \E c \in 1..Len(calls) : ReadDone(c)
    \/ \E c \in 1..Len(calls) : ReadFails(c)
    \/ \E n \in DOMAIN nodes : SourceEnded(n)
    \/ Tick
    \/ \E t \in SUBSET Finished(scheduledSources) : StopSpeak(t)
    \/ \E k \in Made, t \in SUBSET Finished(scheduledSources) : HandleSend(k, t)

ExampleSpec == Init /\ [][ExampleNext]_vars

\* The settings panel's three voices: CosyVoice, Cartesia, System.
Voices == Engines \cup {"system"}

\* A voice button of the settings panel: the setters alone, nothing stopped.
SwitchVoice(v) ==
    /\ v # voice
    /\ voice' = v
    /\ lastOp' = Other
    /\ UNCHANGED <<audioContext, resumePending, currentTime, nextStartTime,
                   isPlaying, queue, scheduledSources, nodes, calls, raised,
                   speaking>>

\* speechSynthesis.cancel() followed by speechSynthesis.speak(u).
SpeakUtterance ==
    /\ speaking' = TRUE
    /\ lastOp' = Other
    /\ UNCHANGED <<audioContext, resumePending, currentTime, nextStartTime,
                   isPlaying, queue, scheduledSources, nodes, calls, raised,
                   voice>>

\* safeSpeak(), as speakMessage and handleSend call it: playAudioStream for
\* a streamed voice, the speech synthesizer for the system voice.
SafeSpeak(made, throwers) ==
    IF voice \in Engines THEN PlayAudioStream(voice, made, throwers)
    ELSE SpeakUtterance

\* The Preview button: playAudioStream for a streamed voice, safeSpeakLegacy
\* for the system voice.
Preview(made, throwers) ==
    IF voice \in Engines THEN PlayAudioStream(voice, made, throwers)
    ELSE SpeakUtterance

\* The utterance has been spoken to its end.
UtteranceEnded ==
    /\ speaking
    /\ speaking' = FALSE
    /\ lastOp' = Other
    /\ UNCHANGED <<audioContext, resumePending, currentTime, nextStartTime,
                   isPlaying, queue, scheduledSources, nodes, calls, raised,
                   voice>>

\* The page as its user drives it: voice buttons, speaker icons, Preview,
\* Stop and Send, around the streams and the device. Streams carry the
\* first payload in chunks of one float32 sample's length, and no halt
\* throws.
UINext ==
    \/ \E v \in Voices : SwitchVoice(v)
    \/ \E k \in Made : SafeSpeak(k, {})
    \/ \E k \in Made : Preview(k, {})
    \/ UtteranceEnded
    \/ StopSpeak({})
    \/ \E k \in Made : HandleSend(k, {})
    \/ DeviceResumed
    \/ DeviceResumeDenied
    \/ \E c \in 1..Len(calls), o \in FetchOutcomes : FetchResponds(c, o, 1)
    \/ \E c \in 1..Len(calls) : ReadChunk(c, BytesPerSample("float32"))
    \/ \E c \in 1..Len(calls) : ReadDone(c)
    \/ \E c \in 1..Len(calls) : ReadFails(c)
    \/ \E n \in DOMAIN nodes : SourceEnded(n)
    \/ Tick

UISpec == Init /\ [][UINext]_vars

\* The program fed by streams that end: every reader.read() awaited by a
\* loop is in the end answered by done or by a rejection.
EndingSpec ==
    /\ Init
    /\ [][Next]_vars
    /\ \A c \in 1..MaxCalls :
          WF_vars(c <= Len(calls) /\ (ReadDone(c) \/ ReadFails(c)))

\* ------------------------------------------- the player class on its own
\* The public methods of StreamingAudioPlayer called in any order, as the
\* class allows: scheduleChunk() may come before any resume().

\* scheduleChunk(chunk, sampleRate, format) called on the player directly
\* with the first len bytes of stream p.
ScheduleChunkCall(p, len, sampleRate, format) ==
    /\ Cardinality(DOMAIN nodes) < MaxUnits
    /\ LET chunk == [i \in 1..len |-> PayloadByte(p, i)]
           r == ScheduleChunk(0, chunk, sampleRate, format)
       IN  /\ nodes' = r.nodes
           /\ scheduledSources' = r.scheduledSources
           /\ nextStartTime' = r.nextStartTime
           /\ raised' = IF r.threw THEN raised \cup {"scheduleChunk"}
                        ELSE raised
           /\ lastOp' = [op |-> "schedule", call |-> 0,
                         pre |-> [PreStop EXCEPT !.inflight = FALSE],
                         arg |-> chunk]
    /\ UNCHANGED <<speaking, voice>>
    /\ UNCHANGED <<audioContext, resumePending, currentTime, isPlaying, queue,
                   calls>>

\* resume() called on the player directly.
ResumeCall(made) ==
    /\ LET r == Resume(audioContext, resumePending, made)
       IN  /\ audioContext' = r.audioContext
           /\ resumePending' = r.resumePending
           /\ raised' = IF r.threw THEN raised \cup {"resume"} ELSE raised
    /\ lastOp' = Op("resume", 0)
    /\ UNCHANGED <<speaking, voice>>
    /\ UNCHANGED <<currentTime, nextStartTime, isPlaying, queue,
                   scheduledSources, nodes, calls>>

\* stop() called on the player directly.
StopCall(throwers) ==
    /\ Stop(throwers)
    /\ lastOp' = [op |-> "stop", call |-> 0, pre |-> PreStop, arg |-> throwers]
    /\ UNCHANGED <<speaking, voice>>
    /\ UNCHANGED <<audioContext, resumePending, currentTime, calls>>

PlayerNext ==
    \/ \E p \in Payloads, len \in 1..4,
          sampleRate \in {COSY_SAMPLE_RATE, CARTESIA_SAMPLE_RATE},
          format \in {"int16", "float32"} :
          ScheduleChunkCall(p, len, sampleRate, format)
    \/ \E k \in Made : ResumeCall(k)
    \/ \E t \in SUBSET Finished(scheduledSources) : StopCall(t)
    \/ DeviceResumed
    \/ DeviceResumeDenied
    \/ \E n \in DOMAIN nodes : SourceEnded(n)
    \/ Tick

PlayerSpec == Init /\ [][PlayerNext]_vars

TypeOK ==
    /\ audioContext \in {"null", "suspended", "running"}
    /\ resumePending \in BOOLEAN
    /\ currentTime \in 0..(MaxTime + ClockStep)
    /\ nextStartTime \in Nat
    /\ isPlaying \in BOOLEAN
    /\ Range(scheduledSources) \subseteq DOMAIN nodes
    /\ Len(calls) <= MaxCalls

\* ================================================================ claims
Max(a, b) == IF a >= b THEN a ELSE b

Last(s) == s[Len(s)]

Width(audioFormat) == IF audioFormat = "int16" THEN 2 ELSE 4

TicksOf(length, sampleRate) == (length * COSY_SAMPLE_RATE * 147) \div sampleRate

Streaming(c) == calls[c].audioFormat # "none"

StopOps == {"stop", "play", "send"}

\* C1: once stop() has run while a read loop was awaiting reader.read(), no
\* later scheduleChunk call of that loop adds a source to scheduledSources.
C1_StaleLoopSchedulesNothing ==
    (lastOp.op = "schedule" /\ calls[lastOp.call].stale)
        => scheduledSources = lastOp.pre.reg

\* C2: all the sources in scheduledSources were scheduled by one and the
\* same playAudioStream call.
C2_SingleStream ==
    \A m, n \in Range(scheduledSources) : nodes[m].owner = nodes[n].owner

\* C3: however the payload is cut into chunks, the samples handed to the
\* scheduler so far are the samples of the received bytes decoded in one
\* piece, and the bytes not decoded are exactly the last
\* (length mod bytesPerSample) bytes received.
C3_PartitionInvariance ==
    \A c \in 1..Len(calls) :
        Streaming(c) =>
            LET call == calls[c]
                n == Len(call.received)
                cut == n % Width(call.audioFormat)
            IN  /\ call.emitted =
                       Decode(SubSeq(call.received, 1, n - cut), call.audioFormat)
                /\ call.leftover = SubSeq(call.received, n - cut + 1, n)
                /\ cut <= Width(call.audioFormat) - 1

\* C3 witness: an int16 stream of 5 bytes whose second sample was handed over
\* by a later iteration than its first, with one byte carried.
C3_Witness ==
    \E c \in 1..Len(calls) :
        /\ calls[c].audioFormat = "int16"
        /\ Len(calls[c].received) = 5
        /\ Len(calls[c].emitted) = 2
        /\ Len(calls[c].leftover) = 1
        /\ lastOp.op = "schedule" /\ lastOp.call = c /\ Len(lastOp.arg) = 2

\* C4: after every iteration of the read loop leftover is shorter than one
\* sample: at most 1 byte for int16, at most 3 for float32.
C4_CarryOverBound ==
    \A c \in 1..Len(calls) :
        /\ calls[c].audioFormat = "int16" => Len(calls[c].leftover) <= 1
        /\ calls[c].audioFormat = "float32" => Len(calls[c].leftover) <= 3
        /\ calls[c].audioFormat = "none" => Len(calls[c].leftover) = 0

\* C4 witness: a float32 stream carrying 3 bytes beside an int16 stream
\* carrying 1 byte.
C4_Witness ==
    /\ \E c \in 1..Len(calls) :
          calls[c].audioFormat = "float32" /\ Len(calls[c].leftover) = 3
    /\ \E c \in 1..Len(calls) :
          calls[c].audioFormat = "int16" /\ Len(calls[c].leftover) = 1

\* The unit scheduled by the last operation continues the timeline of the
\* unit before it: same call, no stop() in between, clock not past
\* nextStartTime.
Continues ==
    /\ lastOp.op = "schedule"
    /\ lastOp.pre.reg # <<>>
    /\ Len(scheduledSources) = Len(lastOp.pre.reg) + 1
    /\ Last(lastOp.pre.reg) \in DOMAIN nodes
    /\ nodes[Last(lastOp.pre.reg)].owner = lastOp.call
    /\ lastOp.pre.now <= lastOp.pre.nst

\* C5: consecutive units of one session, scheduled while the clock has not
\* overtaken nextStartTime, are contiguous: the later one starts exactly
\* where the earlier one ends.
C5_Contiguous ==
    Continues =>
        LET prev == nodes[Last(lastOp.pre.reg)]
            new == nodes[Last(scheduledSources)]
            rate == calls[lastOp.call].sampleRate
        IN  /\ new.start = prev.start + TicksOf(prev.length, rate)
            /\ new.start >= prev.start

C5_Witness ==
    /\ Continues
    /\ nodes[Last(lastOp.pre.reg)].start > 0

\* C6: a scheduleChunk call starts its unit at max(currentTime,
\* nextStartTime) as they were at the call, never before the device clock,
\* and leaves nextStartTime at that start plus sampleCount/sampleRate.
C6_StartAndAdvance ==
    (lastOp.op = "schedule" /\ scheduledSources # lastOp.pre.reg) =>
        LET new == nodes[Last(scheduledSources)]
            rate == calls[lastOp.call].sampleRate
        IN  /\ new.start = Max(lastOp.pre.now, lastOp.pre.nst)
            /\ new.start >= lastOp.pre.now
            /\ new.length = Len(lastOp.arg) \div Width(calls[lastOp.call].audioFormat)
            /\ nextStartTime = new.start + TicksOf(new.length, rate)

\* C6 witness: a unit scheduled after the clock overtook a timeline that had
\* already advanced.
C6_Witness ==
    /\ lastOp.op = "schedule"
    /\ scheduledSources # lastOp.pre.reg
    /\ lastOp.pre.nst > 0
    /\ lastOp.pre.now > lastOp.pre.nst

\* C7: right after stop() the registry is empty, the queue is empty and
\* nextStartTime is 0.
C7_StopClears ==
    lastOp.op \in StopOps =>
        /\ scheduledSources = <<>>
        /\ queue = <<>>
        /\ nextStartTime = 0

\* C7 witness: stop() hit a registry of two units on an advanced timeline.
C7_Witness ==
    /\ lastOp.op = "stop"
    /\ Len(lastOp.pre.reg) = 2
    /\ lastOp.pre.nst > 0
    /\ \A n \in Range(lastOp.pre.reg) : n \in DOMAIN nodes /\ nodes[n].halted

\* stop() was called with no unit registered and no call in flight.
IdleStop ==
    /\ lastOp.op = "stop"
    /\ lastOp.pre.reg = <<>>
    /\ ~lastOp.pre.inflight

\* C8 as stated: stop() with no active session raises nothing and leaves
\* registry, nextStartTime and audio context as they were.
C8_IdleStopChangesNothing ==
    IdleStop =>
        /\ "stop" \notin raised
        /\ scheduledSources = lastOp.pre.reg
        /\ nextStartTime = lastOp.pre.nst
        /\ audioContext = lastOp.pre.ctx

\* C8 amended: stop() with no active session raises nothing, leaves the
\* registry empty and the audio context as it was, and leaves nextStartTime
\* at 0: unchanged where it was 0, reset where the finished session had
\* left it at the end of its timeline.
C8_IdleStopAmended ==
    IdleStop =>
        /\ "stop" \notin raised
        /\ scheduledSources = <<>>
        /\ queue = <<>>
        /\ audioContext = lastOp.pre.ctx
        /\ nextStartTime = 0

\* C8 witness: stop() after every unit of a finished stream ended.
C8_Witness ==
    /\ IdleStop
    /\ lastOp.pre.nst > 0
    /\ lastOp.pre.ctx = "running"
    /\ \E c \in 1..Len(calls) : calls[c].pc = "done" /\ calls[c].emitted # <<>>

\* C9: when halting a unit throws inside stop(), stop() raises nothing,
\* every other registered unit is halted, the registry is cleared and
\* nextStartTime is 0.
C9_HaltFailureTolerated ==
    (lastOp.op \in StopOps /\ lastOp.arg # {}) =>
        /\ "stop" \notin raised
        /\ \A n \in Range(lastOp.pre.reg) \ lastOp.arg :
              n \in DOMAIN nodes /\ nodes[n].halted
        /\ scheduledSources = <<>>
        /\ nextStartTime = 0

\* C9 witness: one registered unit threw and another one was halted.
C9_Witness ==
    /\ lastOp.op = "stop"
    /\ lastOp.arg # {}
    /\ Range(lastOp.pre.reg) \ lastOp.arg # {}

\* C10: every buffer handed to scheduleChunk is a positive whole number of
\* samples long, and what is carried when the stream ends is never handed
\* over: the bytes handed over followed by the carry are the bytes received.
C10_WholeSamplesOnly ==
    /\ lastOp.op = "schedule" =>
          /\ Len(lastOp.arg) > 0
          /\ Len(lastOp.arg) % Width(calls[lastOp.call].audioFormat) = 0
    /\ \A c \in 1..Len(calls) :
          Streaming(c) =>
              /\ Len(calls[c].handed) % Width(calls[c].audioFormat) = 0
              /\ calls[c].handed \o calls[c].leftover = calls[c].received

\* C10 witness: a stream that ended while bytes were carried, after a buffer
\* had been handed over.
C10_Witness ==
    \E c \in 1..Len(calls) :
        /\ calls[c].pc = "done"
        /\ calls[c].leftover # <<>>
        /\ calls[c].handed # <<>>

\* C11: a read-loop iteration whose carry-over plus chunk is shorter than one
\* sample calls scheduleChunk zero times (registry and nextStartTime stay as
\* they were) and leaves as leftover the old leftover followed by the
\* chunk's bytes; scheduleChunk is only ever handed one sample or more.
C11_NoSampleKeepsCarry ==
    /\ lastOp.op = "carry" =>
          LET call == calls[lastOp.call]
              old == lastOp.arg[1]
              value == lastOp.arg[2]
          IN  /\ Len(old) + Len(value) < Width(call.audioFormat)
              /\ call.leftover = old \o value
              /\ call.handed \o call.leftover = call.received
              /\ scheduledSources = lastOp.pre.reg
              /\ nextStartTime = lastOp.pre.nst
    /\ lastOp.op = "schedule" =>
          Len(lastOp.arg) >= Width(calls[lastOp.call].audioFormat)

\* C11 witness: a float32 stream that carried two bytes received one more.
C11_Witness ==
    /\ lastOp.op = "carry"
    /\ calls[lastOp.call].audioFormat = "float32"
    /\ Len(lastOp.arg[1]) = 2
    /\ Len(lastOp.arg[2]) = 1
    /\ Len(calls[lastOp.call].leftover) = 3

\* The units call c has scheduled whose ended event is still due.
UnitsOf(c) == {n \in DOMAIN nodes : nodes[n].owner = c}

\* C12: a playAudioStream call whose fetch failed (rejected, response not
\* ok, or no body) ends in a way its caller can tell from success: its
\* promise is rejected.
C12_FetchFailureSurfaced ==
    \A c \in 1..Len(calls) :
        calls[c].failed = "fetch" => Outcome(calls[c]) = "rejected"

\* C13: a playAudioStream call whose fetch failed has read no byte, handed
\* nothing to scheduleChunk and owns no scheduled unit.
C13_FailedFetchSchedulesNothing ==
    \A c \in 1..Len(calls) :
        calls[c].failed = "fetch" =>
            /\ ~InFlight(calls[c])
            /\ calls[c].received = <<>>
            /\ calls[c].handed = <<>>
            /\ calls[c].emitted = <<>>
            /\ UnitsOf(c) = {}
            /\ (lastOp.op = "schedule" => lastOp.call # c)

\* C13 witness: one call ended at the early return of line 247 and another
\* in the catch of a rejected fetch, on a running context.
C13_Witness ==
    /\ audioContext = "running"
    /\ \E c \in 1..Len(calls) :
          calls[c].failed = "fetch" /\ calls[c].pc = "notok"
    /\ \E c \in 1..Len(calls) :
          calls[c].failed = "fetch" /\ calls[c].pc = "caught"

C15_ReturnsOnceStreaming ==
    \A c \in 1..Len(calls) :
        (calls[c].pc = "read" /\ calls[c].emitted # <<>>)
            => Outcome(calls[c]) # "pending"

\* C15 amended: the promise of a call that got its stream stays pending for
\* as long as its read loop runs and resolves only when the loop has exited
\* (done, or an error caught); it is never rejected.
C15_CompletesAtEndOfIngest ==
    \A c \in 1..Len(calls) :
        Streaming(c) =>
            /\ calls[c].pc = "read" => Outcome(calls[c]) = "pending"
            /\ Outcome(calls[c]) = "resolved" => calls[c].pc \in {"done", "caught"}
            /\ Outcome(calls[c]) # "rejected"

\* C15 witness: a call resolved at done while a unit it scheduled is still
\* playing, beside a call whose loop, two samples in, is still pending.
C15_Witness ==
    /\ \E c \in 1..Len(calls) :
          /\ calls[c].pc = "done"
          /\ Outcome(calls[c]) = "resolved"
          /\ \E n \in UnitsOf(c) \cap Range(scheduledSources) :
                currentTime < nodes[n].start + nodes[n].duration
    /\ \E c \in 1..Len(calls) :
          calls[c].pc = "read" /\ calls[c].emitted # <<>>

ContextStates == {"null", "suspended", "running"}

\* C16: resume() on a context that exists and is not suspended makes no
\* context, issues no audioContext.resume() and changes nothing; and a
\* second resume() right after a first leaves the state the first left.
C16_ResumeIdempotent ==
    /\ \A k \in ContextStates :
          LET once == Resume(audioContext, resumePending, k)
              twice == Resume(once.audioContext, once.resumePending, k)
          IN  /\ twice.audioContext = once.audioContext
              /\ twice.resumePending = once.resumePending
              /\ audioContext = "running" =>
                    /\ once.audioContext = audioContext
                    /\ once.resumePending = resumePending
                    /\ ~once.threw
    /\ audioContext = "running" => ~resumePending
    /\ (lastOp.op \in {"send", "play"} /\ lastOp.pre.ctx = "running") =>
          audioContext = "running" /\ ~resumePending

\* C16 witness: handleSend called resume() on a running context.
C16_Witness ==
    /\ lastOp.op = "send"
    /\ lastOp.pre.ctx = "running"
    /\ audioContext = "running"

\* C17: a unit that starts on the timeline rather than at the clock starts
\* where the previous unit of its own call ends: the unit scheduled before
\* it belongs to the same call.
C17_OwnTimelineOnly ==
    (/\ lastOp.op = "schedule"
     /\ scheduledSources # lastOp.pre.reg
     /\ lastOp.pre.nst > lastOp.pre.now) =>
        /\ lastOp.pre.reg # <<>>
        /\ Last(lastOp.pre.reg) \in DOMAIN nodes
        /\ nodes[Last(lastOp.pre.reg)].owner = lastOp.call

\* C18: scheduledSources never holds a source twice; it holds only sources
\* that have not ended and were not halted by stop(); every source outside
\* it was dropped by stop(), halted or already played to its end; and a
\* scheduleChunk call that schedules a unit appends exactly that unit.
C18_RegistryInvariant ==
    /\ \A i, j \in 1..Len(scheduledSources) :
          scheduledSources[i] = scheduledSources[j] => i = j
    /\ \A n \in Range(scheduledSources) :
          n \in DOMAIN nodes /\ ~nodes[n].halted
    /\ \A n \in DOMAIN nodes \ Range(scheduledSources) :
          nodes[n].halted \/ currentTime >= nodes[n].start + nodes[n].duration
    /\ (lastOp.op = "schedule" /\ lastOp.pre.ctx # "null"
            /\ calls[lastOp.call].failed # "read") =>
          /\ Len(scheduledSources) = Len(lastOp.pre.reg) + 1
          /\ SubSeq(scheduledSources, 1, Len(lastOp.pre.reg)) = lastOp.pre.reg
          /\ Last(scheduledSources) \notin Range(lastOp.pre.reg)
          /\ nodes[Last(scheduledSources)].owner = lastOp.call

\* C18 witness: a unit registered after stop() while the ended event of a
\* halted one is still due.
C18_Witness ==
    /\ scheduledSources # <<>>
    /\ \E n \in DOMAIN nodes \ Range(scheduledSources) : nodes[n].halted
    /\ lastOp.op = "other"

\* Call c saw the end of its stream.
StreamEnded(c) == c <= Len(calls) /\ calls[c].pc = "done"

\* C19: once the read loop of a call has exited on done, and with every
\* scheduled source played to its end and its ended event dispatched, a
\* state is reached in which the loop has exited and scheduledSources is
\* empty.
C19_EventuallyCompleted ==
    \A c \in 1..MaxCalls :
        StreamEnded(c) ~> (StreamEnded(c) /\ scheduledSources = <<>>)

\* C19 witness: a stream ended after two buffers, both played to their end,
\* registry empty, no stop() since.
C19_Witness ==
    \E c \in 1..Len(calls) :
        /\ calls[c].pc = "done"
        /\ Len(calls[c].emitted) = 2
        /\ scheduledSources = <<>>
        /\ nodes = <<>>
        /\ nextStartTime > 0
        /\ currentTime = nextStartTime

\* The last operation was an iteration of call c's read loop.
Iterated(c) == lastOp.call = c /\ lastOp.op \in {"schedule", "carry"}

\* C20 as stated: int16 chunks of 3, 5 and 8 bytes: the first iteration
\* emits no buffer and carries 3 bytes, the second emits 4 samples and
\* carries none, the third emits 4 samples; 8 samples in all, those of the
\* 16 bytes decoded at once.
C20_ExampleAsStated ==
    \A c \in 1..Len(calls) :
        calls[c].audioFormat = "int16" =>
            /\ Len(calls[c].received) = 3 =>
                  /\ calls[c].emitted = <<>>
                  /\ Len(calls[c].leftover) = 3
                  /\ Iterated(c) => lastOp.op = "carry"
            /\ Len(calls[c].received) = 8 =>
                  /\ calls[c].leftover = <<>>
                  /\ Iterated(c) =>
                        lastOp.op = "schedule" /\ Len(lastOp.arg) \div 2 = 4
            /\ Len(calls[c].received) = 16 =>
                  /\ Len(calls[c].emitted) = 8
                  /\ calls[c].emitted = DecodeInt16(calls[c].received)
                  /\ Iterated(c) =>
                        lastOp.op = "schedule" /\ Len(lastOp.arg) \div 2 = 4

\* C20 amended: int16 chunks of 3, 5 and 8 bytes: the first iteration emits
\* 1 sample and carries 1 byte, the second emits 3 samples (1 + 5 bytes) and
\* carries none, the third emits 4 samples; 8 samples in all, those of the
\* 16 bytes decoded at once.
C20_ExampleAmended ==
    \A c \in 1..Len(calls) :
        calls[c].audioFormat = "int16" =>
            /\ Len(calls[c].received) = 3 =>
                  /\ Len(calls[c].emitted) = 1
                  /\ Len(calls[c].leftover) = 1
                  /\ Iterated(c) =>
                        lastOp.op = "schedule" /\ Len(lastOp.arg) \div 2 = 1
            /\ Len(calls[c].received) = 8 =>
                  /\ Len(calls[c].emitted) = 4
                  /\ calls[c].leftover = <<>>
                  /\ Iterated(c) =>
                        lastOp.op = "schedule" /\ Len(lastOp.arg) \div 2 = 3
            /\ Len(calls[c].received) = 16 =>
                  /\ Len(calls[c].emitted) = 8
                  /\ calls[c].leftover = <<>>
                  /\ calls[c].emitted = DecodeInt16(calls[c].received)
                  /\ Iterated(c) =>
                        lastOp.op = "schedule" /\ Len(lastOp.arg) \div 2 = 4
            /\ Len(calls[c].received) \in {0, 3, 8, 16}

\* C20 witness: the third chunk of an int16 stream has just been scheduled.
C20_Witness ==
    \E c \in 1..Len(calls) :
        /\ calls[c].audioFormat = "int16"
        /\ Len(calls[c].received) = 16
        /\ Len(calls[c].emitted) = 8
        /\ Iterated(c)
        /\ Len(lastOp.arg) = 8

\* C21: a float32 stream of one 6-byte chunk: one buffer of 4 bytes (1
\* sample, the first four bytes) is handed to scheduleChunk, the last 2
\* bytes stay in leftover, and at end-of-stream they are still there,
\* undecoded: 1 sample in all.
C21_Float32SixBytes ==
    \A c \in 1..Len(calls) :
        (calls[c].audioFormat = "float32" /\ Len(calls[c].received) = 6) =>
            /\ calls[c].handed = SubSeq(calls[c].received, 1, 4)
            /\ calls[c].emitted = DecodeFloat32(SubSeq(calls[c].received, 1, 4))
            /\ Len(calls[c].emitted) = 1
            /\ calls[c].leftover = SubSeq(calls[c].received, 5, 6)
            /\ Iterated(c) => lastOp.op = "schedule" /\ Len(lastOp.arg) = 4
            /\ Cardinality(UnitsOf(c)) <= 1

\* C21 witness: the 6-byte float32 stream has ended.
C21_Witness ==
    \E c \in 1..Len(calls) :
        /\ calls[c].audioFormat = "float32"
        /\ Len(calls[c].received) = 6
        /\ calls[c].pc = "done"
        /\ Len(calls[c].leftover) = 2
        /\ Len(calls[c].emitted) = 1

\* C22: the speech synthesizer is never speaking while the streaming player
\* holds scheduled units.
C22_MutuallyExclusive == ~(speaking /\ scheduledSources # <<>>)

\* C23: no step other than a stop() (stopSpeak, handleSend, the start of
\* playAudioStream) lowers nextStartTime: scheduleChunk, resume() and the
\* ended callbacks leave it where it was or advance it.
C23_TimelineMonotone ==
    [][nextStartTime' < nextStartTime => lastOp'.op \in StopOps]_vars

\* C23 witness: a unit scheduled on a timeline that an earlier unit, ended
\* and removed by its callback since, had advanced.
C23_Witness ==
    /\ lastOp.op = "schedule"
    /\ lastOp.pre.reg = <<>>
    /\ lastOp.pre.nst > 0
    /\ nextStartTime > lastOp.pre.nst
    /\ audioContext = "running"

\* C24: the step in which reader.read() rejects leaves the registry, the
\* scheduled sources (none halted) and the timeline as they were, hands
\* nothing more to scheduleChunk, and ends the call with a resolved promise.
C24_ReadFailureKeepsPlaying ==
    [][\A c \in 1..Len(calls) :
          (calls[c].failed # "read" /\ calls'[c].failed = "read") =>
              /\ scheduledSources' = scheduledSources
              /\ nodes' = nodes
              /\ nextStartTime' = nextStartTime
              /\ calls'[c].handed = calls[c].handed
              /\ calls'[c].emitted = calls[c].emitted
              /\ calls'[c].leftover = calls[c].leftover
              /\ Outcome(calls'[c]) = "resolved"
              /\ raised' = raised]_vars

\* C24 witness: a read failed after a buffer was scheduled and a byte
\* carried; the unit is still registered, not halted.
C24_Witness ==
    \E c \in 1..Len(calls) :
        /\ calls[c].failed = "read"
        /\ calls[c].emitted # <<>>
        /\ calls[c].leftover # <<>>
        /\ \E n \in UnitsOf(c) \cap Range(scheduledSources) : ~nodes[n].halted

\* The sample rate and encoding a stream of the engine is to be read with.
RateOf(engine) == IF engine = "cartesia" THEN 44100 ELSE 24000

FormatOf(engine) == IF engine = "cartesia" THEN "float32" ELSE "int16"

\* C25: from the response on, the sample rate and encoding of a call are
\* those of its engine, (44100, float32) for cartesia and (24000, int16) for
\* cosyvoice, in every later state; the route sends the same headers with
\* and without streaming; and each unit is built with that rate and width.
C25_StreamParameters ==
    /\ \A c \in 1..Len(calls) :
          IF Streaming(c)
          THEN /\ calls[c].sampleRate = RateOf(calls[c].engine)
               /\ calls[c].audioFormat = FormatOf(calls[c].engine)
          ELSE calls[c].sampleRate = 0
    /\ \A e \in Engines, stream \in BOOLEAN :
          /\ ParseInt(ResponseHeaders(e, stream).sampleRate) = RateOf(e)
          /\ ResponseHeaders(e, stream) = ResponseHeaders(e, ~stream)
          /\ ResponseHeaders(e, stream).sampleRate = SampleRateHeader(e)
          /\ ResponseHeaders(e, stream).audioFormat = AudioFormatHeader(e)
    /\ (lastOp.op = "schedule" /\ scheduledSources # lastOp.pre.reg) =>
          LET new == nodes[Last(scheduledSources)]
              e == calls[lastOp.call].engine
          IN  /\ new.length = Len(lastOp.arg) \div Width(FormatOf(e))
              /\ new.duration = TicksOf(new.length, RateOf(e))

\* C25 witness: a buffer of a cartesia stream has just been scheduled
\* beside a cosyvoice stream that has received a byte.
C25_Witness ==
    /\ lastOp.op = "schedule"
    /\ calls[lastOp.call].engine = "cartesia"
    /\ calls[lastOp.call].emitted # <<>>
    /\ \E c \in 1..Len(calls) :
          /\ calls[c].engine = "cosyvoice"
          /\ calls[c].received # <<>>
          /\ calls[c].sampleRate = 24000

\* Byte values at the edges of the sign and carry boundaries.
EdgeBytes == {0, 1, 127, 128, 254, 255}

\* The signed 16-bit value congruent to u modulo 65536.
Signed16(u) == ((u + 32768) % 65536) - 32768

\* C26: an int16 buffer of n bytes decodes to n/2 samples, the i-th being
\* v/32768 with v the signed 16-bit little-endian value of bytes 2i-1 and
\* 2i, so that -1 <= v/32768 < 1.
C26_Int16Decoding ==
    /\ \A b0, b1 \in EdgeBytes :
          LET d == DecodeInt16(<<b0, b1>>)
          IN  /\ Len(d) = 1
              /\ d[1].den = 32768
              /\ d[1].num = Signed16(b0 + 256 * b1)
              /\ 0 - d[1].den <= d[1].num /\ d[1].num < d[1].den
    /\ \A c \in 1..Len(calls) :
          calls[c].audioFormat = "int16" =>
              /\ 2 * Len(calls[c].emitted) = Len(calls[c].handed)
              /\ \A i \in 1..Len(calls[c].emitted) :
                    LET x == calls[c].emitted[i]
                        b0 == calls[c].handed[2 * i - 1]
                        b1 == calls[c].handed[2 * i]
                    IN  /\ x.den = 32768
                        /\ x.num = Signed16(b0 + 256 * b1)
                        /\ 0 - x.den <= x.num /\ x.num < x.den

\* C26 witness: a negative sample decoded in one int16 stream and a
\* positive one in another.
C26_Witness ==
    /\ \E c \in 1..Len(calls) :
          /\ calls[c].audioFormat = "int16"
          /\ calls[c].emitted # <<>>
          /\ calls[c].emitted[1].num < 0
    /\ \E c \in 1..Len(calls) :
          /\ calls[c].audioFormat = "int16"
          /\ calls[c].emitted # <<>>
          /\ calls[c].emitted[1].num > 0

\* C27: in every state of a read loop the bytes handed to scheduleChunk so
\* far plus the bytes in leftover number the bytes received so far, and
\* they are those bytes, each once and in stream order.
C27_ByteConservation ==
    \A c \in 1..Len(calls) :
        Streaming(c) =>
            LET call == calls[c]
            IN  /\ Len(call.handed) + Len(call.leftover) = Len(call.received)
                /\ \A i \in 1..Len(call.received) :
                      /\ call.received[i] = PayloadByte(call.payload, i)
                      /\ i <= Len(call.handed) =>
                            call.handed[i] = call.received[i]
                      /\ i > Len(call.handed) =>
                            call.leftover[i - Len(call.handed)] = call.received[i]

\* C27 witness: a float32 loop, still reading, after 5 bytes in several
\* chunks: 4 handed over, 1 carried.
C27_Witness ==
    \E c \in 1..Len(calls) :
        /\ calls[c].pc = "read"
        /\ calls[c].audioFormat = "float32"
        /\ Len(calls[c].handed) = 4
        /\ Len(calls[c].leftover) = 1
        /\ lastOp.op = "carry" /\ lastOp.call = c

\* C28: stop() leaves the audio context as it was, and a scheduleChunk call
\* made after stop() by a loop that stop() overtook, on a player whose
\* context exists, schedules its unit: the registry grows by that unit.
C28_StopKeepsContext ==
    /\ lastOp.op = "stop" => audioContext = lastOp.pre.ctx
    /\ (lastOp.op \in StopOps /\ lastOp.pre.ctx # "null") =>
          audioContext # "null"
    /\ (/\ lastOp.op = "schedule"
        /\ calls[lastOp.call].stale
        /\ lastOp.pre.ctx # "null") =>
          /\ Len(scheduledSources) = Len(lastOp.pre.reg) + 1
          /\ nodes[Last(scheduledSources)].owner = lastOp.call
          /\ ~nodes[Last(scheduledSources)].halted

\* C28 witness: stop() emptied the registry of a running player and the
\* loop it overtook has scheduled a unit since.
C28_Witness ==
    /\ lastOp.op = "schedule"
    /\ calls[lastOp.call].stale
    /\ lastOp.pre.reg = <<>>
    /\ lastOp.pre.nst = 0
    /\ calls[lastOp.call].handed # lastOp.arg
    /\ audioContext = "running"
    /\ scheduledSources # <<>>

\* C29: stop() leaves nextStartTime at 0, it stays 0 until the next unit is
\* scheduled, and that unit starts at the device time of its scheduling,
\* wherever the timeline stood before the stop.
C29_FirstUnitAfterStop ==
    [][/\ lastOp'.op \in StopOps => nextStartTime' = 0
       /\ (nextStartTime = 0 /\ lastOp'.op # "schedule") => nextStartTime' = 0
       /\ (/\ nextStartTime = 0
           /\ lastOp'.op = "schedule"
           /\ scheduledSources' # scheduledSources) =>
             /\ nodes'[Last(scheduledSources')].start = currentTime
             /\ nextStartTime' =
                   currentTime + nodes'[Last(scheduledSources')].duration]_vars

\* C29 witness: a unit scheduled at the device time by a loop that stop()
\* overtook, while the unit halted by that stop(), which had taken the
\* timeline beyond that time, still awaits its ended event.
C29_Witness ==
    /\ lastOp.op = "schedule"
    /\ lastOp.pre.nst = 0
    /\ lastOp.pre.now > 0
    /\ scheduledSources # lastOp.pre.reg
    /\ nodes[Last(scheduledSources)].start = lastOp.pre.now
    /\ \E n \in DOMAIN nodes :
          /\ nodes[n].halted
          /\ nodes[n].start + nodes[n].duration > lastOp.pre.now

\* C30: the ended callback of a source that stop() has already dropped from
\* the registry leaves scheduledSources as it is, units scheduled after the
\* stop included, and raises nothing.
C30_LateCallbackHarmless ==
    [][\A n \in DOMAIN nodes :
          (n \notin Range(scheduledSources) /\ n \notin DOMAIN nodes') =>
              /\ scheduledSources' = scheduledSources
              /\ raised' = raised
              /\ \A m \in DOMAIN nodes \ {n} :
                    m \in DOMAIN nodes' /\ nodes'[m] = nodes[m]]_vars

\* C30 witness: the clock has not moved, so the first source can only have
\* gone through the ended event of its halt; the second source, created
\* while the first was still there, is registered.
C30_Witness ==
    /\ currentTime = 0
    /\ scheduledSources = <<2>>
    /\ DOMAIN nodes = {2}
    /\ ~nodes[2].halted

\* C31: scheduleChunk() on a player whose context was never created does
\* nothing: the registry and the timeline keep their values, no source is
\* created or started, and nothing is thrown.
C31_NoContextNoOp ==
    [][(audioContext = "null" /\ lastOp'.op = "schedule") =>
          /\ scheduledSources' = scheduledSources
          /\ nextStartTime' = nextStartTime
          /\ nodes' = nodes
          /\ raised' = raised]_vars

\* C31 witness: scheduleChunk() was just called with a chunk of bytes on a
\* player without a context on which resume() had not run.
C31_Witness ==
    /\ lastOp.op = "schedule"
    /\ lastOp.pre.ctx = "null"
    /\ lastOp.arg # <<>>
    /\ raised = {}
    /\ audioContext = "null"

\* Call c is in its read loop, awaiting reader.read().
Reading(c) == c <= Len(calls) /\ calls[c].pc = "read"

\* C32: a read loop is left only by the step in which reader.read() reports
\* done or rejects, never by a stop(); and when the stream ends, the call
\* in its read loop returns.
C32_LoopEndsWithStream ==
    /\ [][\A c \in 1..Len(calls) :
             (calls[c].pc = "read" /\ calls'[c].pc # "read") =>
                 /\ lastOp'.op = "other"
                 /\ \/ calls'[c].pc = "done"
                    \/ calls'[c].pc = "caught" /\ calls'[c].failed = "read"]_vars
    /\ \A c \in 1..MaxCalls :
          Reading(c) ~> (c <= Len(calls) /\ Returned(calls[c]))

\* C32 witness: one call returned at the end of a stream it scheduled
\* from, and the loop of the next call has just been overtaken by a
\* stop() and is still awaiting reader.read().
C32_Witness ==
    /\ lastOp.op = "stop"
    /\ \E c, d \in 1..Len(calls) :
          /\ calls[c].pc = "done"
          /\ calls[c].emitted # <<>>
          /\ calls[d].pc = "read"
          /\ calls[d].stale

====
